---- MODULE Spec2Model ----
(***************************************************************************)
(* LEI research assistant: the reconciliation engine (LEILookup), the name *)
(* verifier's retry loop (GeminiService) and the registry client's input   *)
(* validation (GLEIFClient).                                               *)
(*                                                                         *)
(* A Python str is modelled as a sequence of one-character strings.        *)
(***************************************************************************)
EXTENDS Integers, Sequences, FiniteSets, TLC

VARIABLES
    pc,               \* where the find_lei invocation stands
    company_name,     \* find_lei's argument
    http_requests,    \* registry HTTP requests sent so far
    lei_records,      \* what get_lei_by_company_name returned (Optional)
    verifier_calls,   \* invocations of verify_company_name_from_website
    attempt,          \* the retry loop's variable
    gemini_requests,  \* generate_content requests made so far
    failed_attempts,  \* how many of them raised
    sleep_count,      \* time.sleep calls made so far
    last_error,       \* str(e) of the latest failed attempt
    server_delay,     \* the retry delay the server put in that error (Optional)
    last_sleep,       \* argument of the latest time.sleep (Optional)
    gemini_response,  \* what generate_content returned (Optional)
    gemini_result,    \* what the verifier returned (Optional)
    match_calls,      \* calls of _find_matching_record
    adapter_raised,   \* an adapter raised into find_lei
    outcome,          \* what find_lei returned (Optional)
    find_lei_raised,  \* an exception left find_lei
    norm_in,          \* argument of the latest _normalize_name call
    norm_out,         \* its return value (None before the first call)
    norm_calls,       \* number of _normalize_name calls made by the harness
    rec_pc,           \* where the get_lei_record invocation stands
    lei_code,         \* get_lei_record's argument
    rec_requests,     \* HTTP requests get_lei_record sent so far
    rec_path,         \* the identifier in the path of its request (Optional)
    rec_response,     \* the registry's answer to it (Optional)
    rec_status,       \* how get_lei_record ended: "returned", "raised", or not yet
    rec_result,       \* the record it returned (Optional: None is Python's None)
    rec_error         \* the exception it raised (Optional)

lookup_vars ==
    <<pc, company_name, http_requests, lei_records, verifier_calls, attempt,
      gemini_requests, failed_attempts, sleep_count, last_error, server_delay,
      last_sleep, gemini_response, gemini_result, match_calls, adapter_raised, outcome,
      find_lei_raised>>

norm_vars == <<norm_in, norm_out, norm_calls>>

record_vars ==
    <<rec_pc, lei_code, rec_requests, rec_path, rec_response, rec_status, rec_result,
      rec_error>>

vars == <<lookup_vars, norm_vars, record_vars>>

\* Optional[T]: None is the empty sequence, a value x is <<x>>.
None == <<>>

Some(x) == <<x>>

----------------------------------------------------------------------------
(* Character classes of Python's re module on str patterns.                *)

LowerLetters ==
    <<"a","b","c","d","e","f","g","h","i","j","k","l","m",
      "n","o","p","q","r","s","t","u","v","w","x","y","z">>

UpperLetters ==
    <<"A","B","C","D","E","F","G","H","I","J","K","L","M",
      "N","O","P","Q","R","S","T","U","V","W","X","Y","Z">>

Digits == {"0","1","2","3","4","5","6","7","8","9"}

Range(s) == {s[i] : i \in 1..Len(s)}

WordChars == Range(LowerLetters) \cup Range(UpperLetters) \cup Digits \cup {"_"}

SpaceChars == {" ", "\t", "\n", "\r"}

\* \w : alphanumeric or underscore
IsWord(c) == c \in WordChars

\* \s : whitespace
IsSpace(c) == c \in SpaceChars

LowerOf ==
    [c \in Range(UpperLetters) |->
        LowerLetters[CHOOSE i \in 1..Len(UpperLetters) : UpperLetters[i] = c]]

\* str.lower() on one character
LowerChar(c) == IF c \in DOMAIN LowerOf THEN LowerOf[c] ELSE c

\* The name is used as given, with no change of case.
lowerOmitted(s) == s

\* str.lower()
lower(s) == [i \in 1..Len(s) |-> LowerChar(s[i])]

UpperOf ==
    [c \in Range(LowerLetters) |->
        UpperLetters[CHOOSE i \in 1..Len(LowerLetters) : LowerLetters[i] = c]]

\* str.upper() on one character
UpperChar(c) == IF c \in DOMAIN UpperOf THEN UpperOf[c] ELSE c

\* str.upper()
upper(s) == [i \in 1..Len(s) |-> UpperChar(s[i])]

\* str.strip()
RECURSIVE lstrip(_)
lstrip(s) == IF s # <<>> /\ IsSpace(Head(s)) THEN lstrip(Tail(s)) ELSE s

RECURSIVE rstrip(_)
rstrip(s) ==
    IF s # <<>> /\ IsSpace(s[Len(s)]) THEN rstrip(SubSeq(s, 1, Len(s) - 1)) ELSE s

strip(s) == rstrip(lstrip(s))

\* str.split() with no separator: the maximal runs of non-whitespace
RECURSIVE SplitFrom(_, _, _)
SplitFrom(s, i, word) ==
    IF i > Len(s)
    THEN (IF word = <<>> THEN <<>> ELSE <<word>>)
    ELSE IF IsSpace(s[i])
         THEN (IF word = <<>> THEN <<>> ELSE <<word>>) \o SplitFrom(s, i + 1, <<>>)
         ELSE SplitFrom(s, i + 1, Append(word, s[i]))

split(s) == SplitFrom(s, 1, <<>>)

\* ' '.join(words)
RECURSIVE join(_)
join(words) ==
    IF words = <<>> THEN <<>>
    ELSE IF Len(words) = 1 THEN words[1]
    ELSE words[1] \o <<" ">> \o join(Tail(words))

\* a in b, for str
IsSubstring(a, b) ==
    \E i \in 0..(Len(b) - Len(a)) : SubSeq(b, i + 1, i + Len(a)) = a

----------------------------------------------------------------------------
(* LEILookup._normalize_name                                               *)

\* A suffix pattern \b<lit>\.?\b (dot = TRUE) or \b<lit>\b (dot = FALSE).
Suffix(lit, dot) == [lit |-> lit, dot |-> dot]

suffixes == <<
    Suffix(<<"i","n","c">>, TRUE),
    Suffix(<<"i","n","c","o","r","p","o","r","a","t","e","d">>, FALSE),
    Suffix(<<"l","l","c">>, TRUE),
    Suffix(<<"l",".","l",".","c">>, TRUE),
    Suffix(<<"l","t","d">>, TRUE),
    Suffix(<<"l","i","m","i","t","e","d">>, FALSE),
    Suffix(<<"l",".","t",".","d">>, TRUE),
    Suffix(<<"c","o","r","p">>, TRUE),
    Suffix(<<"c","o","r","p","o","r","a","t","i","o","n">>, FALSE),
    Suffix(<<"g","m","b","h">>, TRUE),
    Suffix(<<"a","g">>, TRUE),
    Suffix(<<"s","a">>, TRUE),
    Suffix(<<"s","a","r","l">>, TRUE),
    Suffix(<<"p","l","c">>, TRUE),
    Suffix(<<"c","o">>, TRUE),
    Suffix(<<"c","o","m","p","a","n","y">>, FALSE) >>

IsWordAt(s, k) == k \in 1..Len(s) /\ IsWord(s[k])

\* \b holds between s[i-1] and s[i] (i = 1: the start, i = Len(s)+1: the end)
WordBoundary(s, i) == IsWordAt(s, i - 1) # IsWordAt(s, i)

LitAt(s, i, lit) ==
    /\ i + Len(lit) - 1 <= Len(s)
    /\ \A k \in 1..Len(lit) : s[i + k - 1] = lit[k]

\* The index just after the match of pattern p that starts at i, 0 if there is
\* none.  \.? is greedy: the period is taken when the rest still matches.
MatchEnd(s, i, p) ==
    LET j == i + Len(p.lit) IN
    IF ~(WordBoundary(s, i) /\ LitAt(s, i, p.lit)) THEN 0
    ELSE IF p.dot /\ j <= Len(s) /\ s[j] = "." /\ WordBoundary(s, j + 1) THEN j + 1
    ELSE IF WordBoundary(s, j) THEN j
    ELSE 0

\* re.sub(p, '', s): the leftmost non-overlapping matches are deleted
RECURSIVE SubFrom(_, _, _)
SubFrom(s, i, p) ==
    IF i > Len(s) THEN <<>>
    ELSE LET e == MatchEnd(s, i, p) IN
         IF e # 0 THEN SubFrom(s, e, p)
         ELSE <<s[i]>> \o SubFrom(s, i + 1, p)

re_sub(p, s) == SubFrom(s, 1, p)

\* for suffix in suffixes: normalized = re.sub(suffix, '', normalized)
RECURSIVE StripSuffixes(_, _)
StripSuffixes(s, k) ==
    IF k > Len(suffixes) THEN s
    ELSE StripSuffixes(re_sub(suffixes[k], s), k + 1)

\* re.sub(r'[^\w\s]', '', s)
KeepsChar(c) == IsWord(c) \/ IsSpace(c)

RemovePunctuation(s) == SelectSeq(s, KeepsChar)

normalize_name(name) ==
    strip(join(split(RemovePunctuation(StripSuffixes(lower(name), 1)))))

----------------------------------------------------------------------------
(* Harness for the pure function: inputs of bounded length over a small    *)
(* alphabet, _normalize_name applied once and then to its own output.      *)

MaxLen == 4

NormAlphabet == {"a", "g", "s", "x", "A", ".", "-", " ", "_"}

RECURSIVE StringsUpTo(_, _)
StringsUpTo(alphabet, n) ==
    IF n = 0 THEN {<<>>}
    ELSE LET shorter == StringsUpTo(alphabet, n - 1) IN
         shorter \cup {Append(s, c) : s \in {t \in shorter : Len(t) = n - 1}, c \in alphabet}

\* The words that precede a suffix token in a company name; none is a token.
Words == { <<"x">>, <<"a","b">>, <<"g","o","o","g","l","e">> }

\* The first character in upper case, as in "Google", "Inc".
Capitalized(s) ==
    IF s = <<>> THEN s ELSE <<UpperChar(s[1])>> \o lower(Tail(s))

LetterCases == {"lower", "UPPER", "Title"}

Cased(s, case) ==
    IF case = "UPPER" THEN upper(s)
    ELSE IF case = "Title" THEN Capitalized(s)
    ELSE lower(s)

\* One word, a blank, a suffix token and possibly a period: "Google Inc."
SuffixedName(word, k, period, case) ==
    Cased(word, case) \o <<" ">> \o Cased(suffixes[k].lit, case)
        \o (IF period THEN <<".">> ELSE <<>>)

SuffixedNames ==
    { SuffixedName(w, k, p, c) :
        w \in Words, k \in 1..Len(suffixes), p \in BOOLEAN, c \in LetterCases }

NormInputs == StringsUpTo(NormAlphabet, MaxLen) \cup SuffixedNames

NormInit ==
    /\ norm_in \in NormInputs
    /\ norm_out = None
    /\ norm_calls = 0

Normalize ==
    /\ norm_calls = 0
    /\ norm_out' = Some(normalize_name(norm_in))
    /\ norm_calls' = 1
    /\ UNCHANGED norm_in
    /\ UNCHANGED <<lookup_vars, record_vars>>

Renormalize ==
    /\ norm_calls = 1
    /\ norm_in' = norm_out[1]
    /\ norm_out' = Some(normalize_name(norm_out[1]))
    /\ norm_calls' = 2
    /\ UNCHANGED <<lookup_vars, record_vars>>

NormNext == Normalize \/ Renormalize

----------------------------------------------------------------------------
(* Messages and exceptions.  An f-string is its template with the value    *)
(* substituted for {}; str(e) of an exception is its message.              *)

Fmt(fmt, arg) == [fmt |-> fmt, arg |-> arg]

Raise(type, message) == [type |-> type, message |-> message]

\* The classes `except Exception` catches among those raised here.
ExceptionClasses == {"Exception", "ValueError", "TypeError"}

Failure(message) == [success |-> FALSE, message |-> message]

\* dict.get(key, default)
DictGet(d, key, default) == IF key \in DOMAIN d THEN d[key] ELSE default

----------------------------------------------------------------------------
(* GLEIFClient.get_lei_by_company_name                                     *)

\* Variant: only the empty name is rejected (the strip() test is missing).
CompanyNameRejectedEmptyOnly(name) == name = <<>>

\* if not company_name or not company_name.strip(): raise ValueError(...)
CompanyNameRejected(name) == name = <<>> \/ strip(name) = <<>>

EmptyNameError == Raise("ValueError", Fmt("Company name cannot be empty", <<>>))

\* The handlers of the request: each failure is re-raised as Exception.
RegistryErrors == {
    Raise("Exception", Fmt("Request timed out after {} seconds", <<>>)),
    Raise("Exception", Fmt("HTTP error occurred: {} - {}", <<>>)),
    Raise("Exception", Fmt("Failed to connect to GLEIF API. Check your network connection.", <<>>)) }

\* One parsed record; the registry's identifier and address are its own.
ParsedRecord(i, legal_name) ==
    [lei |-> <<"LEI", i>>, legal_name |-> legal_name, address |-> <<"ADDR", i>>]

parse_lei_records(names) == [i \in 1..Len(names) |-> ParsedRecord(i, names[i])]

----------------------------------------------------------------------------
(* GeminiService                                                            *)

\* for attempt in range(4)
MaxAttempts == 4

\* Variant: the terminal failure is raised one attempt early.
IsLastAttemptEarly(a) == a = 2

\* if attempt == 3
IsLastAttempt(a) == a = 3

DefaultDelay == 60

RetryKey == <<"'","r","e","t","r","y","D","e","l","a","y","'",":"," ","'">>

DigitSeq == <<"0","1","2","3","4","5","6","7","8","9">>

DigitValue(c) == (CHOOSE i \in 1..10 : DigitSeq[i] = c) - 1

\* int(digits)
RECURSIVE int(_)
int(ds) ==
    IF ds = <<>> THEN 0
    ELSE 10 * int(SubSeq(ds, 1, Len(ds) - 1)) + DigitValue(ds[Len(ds)])

\* (\d+) at position i: the longest run of digits starting there
RECURSIVE DigitRun(_, _)
DigitRun(s, i) ==
    IF i <= Len(s) /\ s[i] \in Digits THEN <<s[i]>> \o DigitRun(s, i + 1) ELSE <<>>

\* re.search(r"'retryDelay': '(\d+)", s) tried from position i on
RECURSIVE SearchRetryDelay(_, _)
SearchRetryDelay(s, i) ==
    IF i + Len(RetryKey) > Len(s) THEN None
    ELSE IF /\ SubSeq(s, i, i + Len(RetryKey) - 1) = RetryKey
            /\ DigitRun(s, i + Len(RetryKey)) # <<>>
         THEN Some(DigitRun(s, i + Len(RetryKey)))
         ELSE SearchRetryDelay(s, i + 1)

extract_retry_delay(error_string) ==
    LET match == SearchRetryDelay(error_string, 1) IN
    IF match # None THEN Some(int(match[1])) ELSE None

\* delay = self._extract_retry_delay(str(e)) or 60
RetryDelay(error_string) ==
    LET d == extract_retry_delay(error_string) IN
    IF d = None \/ d[1] = 0 THEN DefaultDelay ELSE d[1]

GeminiTerminalError(error_string) ==
    Raise("Exception", Fmt("Error calling Gemini API after 4 attempts: {}", error_string))

\* legal_name = response.text.strip() if response.text else None
LegalNameOf(response) ==
    IF response.text = None \/ response.text[1] = <<>> THEN None
    ELSE Some(strip(response.text[1]))

\* The chunks of one candidate: those with a web part give a source.
RECURSIVE ChunkSources(_)
ChunkSources(chunks) ==
    IF chunks = <<>> THEN <<>>
    ELSE (IF Head(chunks) = None THEN <<>>
          ELSE <<[url |-> Head(chunks)[1].uri, title |-> Head(chunks)[1].title]>>)
         \o ChunkSources(Tail(chunks))

RECURSIVE CandidateSources(_)
CandidateSources(candidates) ==
    IF candidates = <<>> THEN <<>>
    ELSE (IF Head(candidates) = None THEN <<>> ELSE ChunkSources(Head(candidates)[1]))
         \o CandidateSources(Tail(candidates))

extract_sources(response) ==
    IF response.candidates = None THEN <<>>
    ELSE CandidateSources(response.candidates[1])

\* Prices per token, in billionths of a dollar (0.075 and 0.30 per million).
INPUT_COST_PER_TOKEN == 75

OUTPUT_COST_PER_TOKEN == 300

calculate_cost(response) ==
    IF response.usage_metadata = None THEN 0
    ELSE response.usage_metadata[1].prompt_token_count * INPUT_COST_PER_TOKEN
         + response.usage_metadata[1].candidates_token_count * OUTPUT_COST_PER_TOKEN

\* The dictionary verify_company_name_from_website returns.
VerifierResult(response) ==
    [legal_name |-> LegalNameOf(response),
     sources |-> extract_sources(response),
     estimated_cost |-> calculate_cost(response)]

----------------------------------------------------------------------------
(* LEILookup                                                               *)

RecordMatches(record, normalized_gemini) ==
    /\ record.legal_name # <<>>
    /\ \/ IsSubstring(normalized_gemini, normalize_name(record.legal_name))
       \/ IsSubstring(normalize_name(record.legal_name), normalized_gemini)

\* Variant: the loop keeps going and the last matching record wins.
RECURSIVE MatchFromLast(_, _, _)
MatchFromLast(records, i, normalized_gemini) ==
    IF i > Len(records) THEN None
    ELSE LET later == MatchFromLast(records, i + 1, normalized_gemini) IN
         IF later # None THEN later
         ELSE IF RecordMatches(records[i], normalized_gemini) THEN Some(records[i])
         ELSE None

\* The loop of _find_matching_record from record i on.
RECURSIVE MatchFrom(_, _, _)
MatchFrom(records, i, normalized_gemini) ==
    IF i > Len(records) THEN None
    ELSE IF records[i].legal_name = <<>> THEN MatchFrom(records, i + 1, normalized_gemini)
    ELSE LET normalized_gleif == normalize_name(records[i].legal_name) IN
         IF \/ IsSubstring(normalized_gemini, normalized_gleif)
            \/ IsSubstring(normalized_gleif, normalized_gemini)
         THEN Some(records[i])
         ELSE MatchFrom(records, i + 1, normalized_gemini)

find_matching_record(records, gemini_name) ==
    MatchFrom(records, 1, normalize_name(gemini_name))

NoRecordsMessage(name) ==
    Fmt("No LEI records found for '{}'. This company may not have a registered LEI.", name)

NotVerifiedMessage ==
    Fmt("Could not verify company name from the provided website.", <<>>)

\* Variant: the no-match case reports the zero-records message.
NoMatchMessageAsNoRecords(name) == NoRecordsMessage(name)

NoMatchMessage(name) ==
    Fmt("Found LEI records for '{}', but could not verify a match with the legal name from the website. Please ensure the website URL is accurate.", name)

ErrorMessage(e) == Fmt("Error during LEI lookup: {}", e.message)

\* Variant: Success carries the verified name instead of the registry's.
MatchOutcomeVerifiedName(name, records, result) ==
    LET matched_record == find_matching_record(records, result.legal_name[1]) IN
    IF matched_record = None THEN Failure(NoMatchMessage(name))
    ELSE [success |-> TRUE,
          lei |-> matched_record[1].lei,
          legal_name |-> result.legal_name[1],
          address |-> matched_record[1].address,
          sources |-> DictGet(result, "sources", <<>>),
          estimated_cost |-> DictGet(result, "estimated_cost", 0)]

\* Steps 3 and 4 of find_lei, once a legal name is in hand.
MatchOutcome(name, records, result) ==
    LET matched_record == find_matching_record(records, result.legal_name[1]) IN
    IF matched_record = None THEN Failure(NoMatchMessage(name))
    ELSE [success |-> TRUE,
          lei |-> matched_record[1].lei,
          legal_name |-> matched_record[1].legal_name,
          address |-> matched_record[1].address,
          sources |-> DictGet(result, "sources", <<>>),
          estimated_cost |-> DictGet(result, "estimated_cost", 0)]

\* Variant: gemini_legal_name is None
NameIsNone(gemini_legal_name) == gemini_legal_name = None

\* not gemini_legal_name
NameMissing(gemini_legal_name) ==
    gemini_legal_name = None \/ gemini_legal_name[1] = <<>>

\* find_lei from the verifier's return on (steps 2 to 4): what it returns,
\* and how often it called _find_matching_record.
VerifiedOutcome(name, records, result) ==
    IF NameMissing(DictGet(result, "legal_name", None))
    THEN [ret |-> Failure(NotVerifiedMessage), match_calls |-> 0]
    ELSE [ret |-> MatchOutcome(name, records, result), match_calls |-> 1]

\* Variant: lei_records is None, which a list never is
NoRecordsIsNone(records) == FALSE

\* if not lei_records
NoRecords(records) == records = <<>>

\* Variant: only the adapters' wrapped request errors are caught.
CaughtRequestErrorsOnly(e) == e.type = "Exception"

\* except Exception as e: what find_lei returns, and whether e escapes instead
Caught(e) == e.type \in ExceptionClasses

Handled(e) == IF Caught(e) THEN Some(Failure(ErrorMessage(e))) ELSE None

----------------------------------------------------------------------------
(* GLEIFClient.get_lei_record                                              *)

LeiLength == 20

\* Variant: only an empty or too long code is rejected.
LeiCodeRejectedTooLongOnly(code) == code = <<>> \/ Len(code) > LeiLength

\* if not lei_code or len(lei_code) != 20: raise ValueError(...)
LeiCodeRejected(code) == code = <<>> \/ Len(code) # LeiLength

LeiCodeError == Raise("ValueError", Fmt("LEI code must be exactly 20 characters", <<>>))

\* endpoint = f"{self.BASE_URL}/lei-records/{lei_code.strip().upper()}"
EndpointCode(code) == upper(strip(code))

\* if response.status_code == 404
IsNotFound(status) == status = 404

\* response.raise_for_status() raises for the 4xx and 5xx statuses
IsErrorStatus(status) == status >= 400 /\ status < 600

HttpStatusError == Raise("Exception", Fmt("HTTP error occurred: {} - {}", <<>>))

\* The request's failures short of a response.
TransportErrors == {
    Raise("Exception", Fmt("Request timed out after {} seconds", <<>>)),
    Raise("Exception", Fmt("Failed to connect to GLEIF API. Check your network connection.", <<>>)) }

\* return results[0] if results else None
FirstRecord(results) == IF results = <<>> THEN None ELSE Some(results[1])

RecordInit ==
    /\ rec_pc = "idle"
    /\ lei_code = <<>>
    /\ rec_requests = 0
    /\ rec_path = None
    /\ rec_response = None
    /\ rec_status = "running"
    /\ rec_result = None
    /\ rec_error = None

RecordRaises(e) ==
    /\ rec_pc' = "done"
    /\ rec_status' = "raised"
    /\ rec_error' = Some(e)
    /\ UNCHANGED rec_result

RecordReturns(result) ==
    /\ rec_pc' = "done"
    /\ rec_status' = "returned"
    /\ rec_result' = result
    /\ UNCHANGED rec_error

\* get_lei_record(code) up to its request: the code is checked, and the
\* request is sent for a code that passes.
GetLeiRecord(code) ==
    /\ rec_pc = "idle"
    /\ lei_code' = code
    /\ IF LeiCodeRejected(code)
       THEN /\ RecordRaises(LeiCodeError)
            /\ UNCHANGED <<rec_requests, rec_path>>
       ELSE /\ rec_pc' = "request"
            /\ rec_requests' = rec_requests + 1
            /\ rec_path' = Some(EndpointCode(code))
            /\ UNCHANGED <<rec_status, rec_result, rec_error>>
    /\ UNCHANGED rec_response
    /\ UNCHANGED <<lookup_vars, norm_vars>>

\* The request times out or cannot connect.
RecordRequestFails(e) ==
    /\ rec_pc = "request"
    /\ RecordRaises(e)
    /\ UNCHANGED <<lei_code, rec_requests, rec_path, rec_response>>
    /\ UNCHANGED <<lookup_vars, norm_vars>>

\* The registry answers: 404 gives None, another error status raises, and a
\* good answer gives its first parsed record, or None when it holds none.
RecordResponds(r) ==
    /\ rec_pc = "request"
    /\ rec_response' = Some(r)
    /\ IF IsNotFound(r.status) THEN RecordReturns(None)
       ELSE IF IsErrorStatus(r.status) THEN RecordRaises(HttpStatusError)
       ELSE RecordReturns(FirstRecord(r.data))
    /\ UNCHANGED <<lei_code, rec_requests, rec_path>>
    /\ UNCHANGED <<lookup_vars, norm_vars>>

----------------------------------------------------------------------------
(* The inputs of one invocation.                                           *)

MaxRecords == 2

MaxServerDelay == 10

CompanyNames == { <<>>, <<" ">>, <<" ","\t">>, <<"a","b">>, <<"x"," ">> }

\* Legal names the registry may hold: empty, "ab co", "ab", "Ltd", "xy".
LegalNames ==
    { <<>>, <<"a","b"," ","c","o">>, <<"a","b">>, <<"L","t","d">>, <<"x","y">> }

RECURSIVE SeqsUpTo(_, _)
SeqsUpTo(S, n) ==
    IF n = 0 THEN {<<>>}
    ELSE LET shorter == SeqsUpTo(S, n - 1) IN
         shorter \cup {Append(s, x) : s \in {t \in shorter : Len(t) = n - 1}, x \in S}

RegistryResults == {parse_lei_records(names) : names \in SeqsUpTo(LegalNames, MaxRecords)}

\* str(d), d >= 0
RECURSIVE str(_)
str(d) == IF d < 10 THEN <<DigitSeq[d + 1]>> ELSE str(d \div 10) \o <<DigitSeq[(d % 10) + 1]>>

\* The text of a failed request: with the server's retry delay, or without.
ErrorText(delay) ==
    IF delay = None THEN <<"5","0","3"," ","U","N","A","V","A","I","L","A","B","L","E">>
    ELSE <<"4","2","9"," ">> \o RetryKey \o str(delay[1]) \o <<"s","'">>

ServerDelays == {None} \cup {Some(d) : d \in 0..MaxServerDelay}

\* The delays tried within the full lookup.
LookupDelays == {None, Some(0), Some(7)}

\* The texts of a response: absent, "", " ", "ab", " b ", "Inc.", "q".
ResponseTexts ==
    { None, Some(<<>>), Some(<<" ">>), Some(<<"a","b">>), Some(<<" ","b"," ">>),
      Some(<<"I","n","c",".">>), Some(<<"q">>) }

Web1 == [uri |-> "https://example.com", title |-> "About"]

Web2 == [uri |-> "https://example.org", title |-> "Imprint"]

Usage(p, c) == [prompt_token_count |-> p, candidates_token_count |-> c]

ResponseExtras ==
    { [candidates |-> None, usage_metadata |-> None],
      [candidates |-> Some(<<Some(<<Some(Web1), None, Some(Web2)>>), None>>),
       usage_metadata |-> Some(Usage(10, 20))],
      [candidates |-> Some(<<Some(<<Some(Web2)>>), Some(<<Some(Web1)>>)>>),
       usage_metadata |-> None] }

Responses ==
    { [text |-> t, candidates |-> x.candidates, usage_metadata |-> x.usage_metadata] :
        t \in ResponseTexts, x \in ResponseExtras }

----------------------------------------------------------------------------
(* One find_lei invocation, cut at its two network calls.                  *)

LookupInit ==
    /\ pc = "idle"
    /\ company_name = <<>>
    /\ http_requests = 0
    /\ lei_records = None
    /\ verifier_calls = 0
    /\ attempt = 0
    /\ gemini_requests = 0
    /\ failed_attempts = 0
    /\ sleep_count = 0
    /\ last_error = <<>>
    /\ server_delay = None
    /\ last_sleep = None
    /\ gemini_response = None
    /\ gemini_result = None
    /\ match_calls = 0
    /\ adapter_raised = FALSE
    /\ outcome = None
    /\ find_lei_raised = FALSE

\* find_lei ends: e raised inside its try block.
Fails(e) ==
    /\ pc' = "done"
    /\ adapter_raised' = TRUE
    /\ outcome' = Handled(e)
    /\ find_lei_raised' = ~Caught(e)

\* find_lei ends by a return statement.
Returns(result) ==
    /\ pc' = "done"
    /\ outcome' = Some(result)
    /\ UNCHANGED <<adapter_raised, find_lei_raised>>

\* find_lei(name, website) up to the registry request: the name is validated,
\* and the request is sent only for a name that passes.
Call(name) ==
    /\ pc = "idle"
    /\ company_name' = name
    /\ IF CompanyNameRejected(name)
       THEN /\ Fails(EmptyNameError)
            /\ UNCHANGED http_requests
       ELSE /\ pc' = "registry"
            /\ http_requests' = http_requests + 1
            /\ UNCHANGED <<adapter_raised, outcome, find_lei_raised>>
    /\ UNCHANGED <<lei_records, verifier_calls, attempt, gemini_requests,
                   failed_attempts, sleep_count, last_error, server_delay,
                   last_sleep, gemini_response, gemini_result, match_calls>>
    /\ UNCHANGED <<norm_vars, record_vars>>

\* The registry request fails: get_lei_by_company_name raises.
RegistryRaises(e) ==
    /\ pc = "registry"
    /\ Fails(e)
    /\ UNCHANGED <<company_name, http_requests, lei_records, verifier_calls, attempt,
                   gemini_requests, failed_attempts, sleep_count, last_error,
                   server_delay, last_sleep, gemini_response, gemini_result, match_calls>>
    /\ UNCHANGED <<norm_vars, record_vars>>

\* The registry answers: no record ends find_lei, otherwise the verifier is
\* invoked and enters its retry loop.
RegistryReturns(records) ==
    /\ pc = "registry"
    /\ lei_records' = Some(records)
    /\ IF NoRecords(records)
       THEN /\ Returns(Failure(NoRecordsMessage(company_name)))
            /\ UNCHANGED <<verifier_calls, attempt>>
       ELSE /\ pc' = "gemini"
            /\ verifier_calls' = verifier_calls + 1
            /\ attempt' = 0
            /\ UNCHANGED <<adapter_raised, outcome, find_lei_raised>>
    /\ UNCHANGED <<company_name, http_requests, gemini_requests, failed_attempts,
                   sleep_count, last_error, server_delay, last_sleep, gemini_response,
                   gemini_result, match_calls>>
    /\ UNCHANGED <<norm_vars, record_vars>>

\* One generate_content request raises: the last attempt raises the terminal
\* failure into find_lei, an earlier one sleeps and goes round the loop.
AttemptFails(delay) ==
    /\ pc = "gemini"
    /\ attempt < MaxAttempts
    /\ gemini_requests' = gemini_requests + 1
    /\ failed_attempts' = failed_attempts + 1
    /\ last_error' = ErrorText(delay)
    /\ server_delay' = delay
    /\ IF IsLastAttempt(attempt)
       THEN /\ Fails(GeminiTerminalError(ErrorText(delay)))
            /\ UNCHANGED <<attempt, sleep_count, last_sleep>>
       ELSE /\ last_sleep' = Some(RetryDelay(ErrorText(delay)))
            /\ sleep_count' = sleep_count + 1
            /\ attempt' = attempt + 1
            /\ UNCHANGED <<pc, adapter_raised, outcome, find_lei_raised>>
    /\ UNCHANGED <<company_name, http_requests, lei_records, verifier_calls,
                   gemini_response, gemini_result, match_calls>>
    /\ UNCHANGED <<norm_vars, record_vars>>

\* One generate_content request succeeds: the loop is left, the verifier
\* returns its dictionary (its locals end with it) and find_lei runs to its
\* return.
AttemptSucceeds(r) ==
    /\ pc = "gemini"
    /\ attempt < MaxAttempts
    /\ gemini_requests' = gemini_requests + 1
    /\ gemini_response' = Some(r)
    /\ gemini_result' = Some(VerifierResult(r))
    /\ match_calls' =
           match_calls + VerifiedOutcome(company_name, lei_records[1], VerifierResult(r)).match_calls
    /\ attempt' = 0
    /\ last_error' = <<>>
    /\ server_delay' = None
    /\ last_sleep' = None
    /\ Returns(VerifiedOutcome(company_name, lei_records[1], VerifierResult(r)).ret)
    /\ UNCHANGED <<company_name, http_requests, lei_records, verifier_calls,
                   failed_attempts, sleep_count>>
    /\ UNCHANGED <<norm_vars, record_vars>>

Init == LookupInit /\ norm_in = <<>> /\ norm_out = None /\ norm_calls = 0 /\ RecordInit

Next ==
    \/ \E name \in CompanyNames : Call(name)
    \/ \E e \in RegistryErrors : RegistryRaises(e)
    \/ \E records \in RegistryResults : RegistryReturns(records)
    \/ \E delay \in LookupDelays : AttemptFails(delay)
    \/ \E r \in Responses : AttemptSucceeds(r)

Spec == Init /\ [][Next]_vars

\* The verifier's retry loop under every server delay, within one invocation
\* on fixed registry data.
RetryNext ==
    \/ Call(<<"a","b">>)
    \/ RegistryReturns(parse_lei_records(<< <<"a","b"," ","c","o">> >>))
    \/ \E delay \in ServerDelays : AttemptFails(delay)
    \/ \E r \in Responses : AttemptSucceeds(r)

SpecRetry == Init /\ [][RetryNext]_vars

\* The call chain is synchronous and each network call returns or raises.
FairSpec == Spec /\ WF_vars(Next)

\* No lookup is under way while the normalizer is exercised.
NormStart == LookupInit /\ NormInit /\ RecordInit

SpecNorm == NormStart /\ [][NormNext]_vars

----------------------------------------------------------------------------
(* One get_lei_record invocation, cut at its network call.                 *)

MaxPad == 1

MaxBody == 21

BodyChars == <<"5","4","9","3","k","j","T">>

\* n identifier characters
Body(n) == [i \in 1..n |-> BodyChars[((i - 1) % Len(BodyChars)) + 1]]

Spaces(n) == [i \in 1..n |-> " "]

\* Codes of every length up to MaxBody + 2 * MaxPad, with and without
\* surrounding blanks.
LeiCodes ==
    { Spaces(l) \o Body(n) \o Spaces(r) : l \in 0..MaxPad, r \in 0..MaxPad, n \in 0..MaxBody }

HttpResponses ==
    { [status |-> 404, data |-> <<>>], [status |-> 500, data |-> <<>>] }
    \cup { [status |-> 200, data |-> records] : records \in RegistryResults }

RecordStart ==
    LookupInit /\ norm_in = <<>> /\ norm_out = None /\ norm_calls = 0 /\ RecordInit

RecordNext ==
    \/ \E code \in LeiCodes : GetLeiRecord(code)
    \/ \E e \in TransportErrors : RecordRequestFails(e)
    \/ \E r \in HttpResponses : RecordResponds(r)

SpecRecord == RecordStart /\ [][RecordNext]_vars

----------------------------------------------------------------------------
(* Properties.                                                             *)

Done == pc = "done"

Ret == outcome[1]

Recs == lei_records[1]

\* The verifier returned a result with a usable legal name.
NameVerified ==
    /\ gemini_result # None
    /\ gemini_result[1].legal_name # None
    /\ gemini_result[1].legal_name[1] # <<>>

VerifiedName == gemini_result[1].legal_name[1]

\* Candidate i passes the bidirectional containment test.
Matches(i) ==
    LET c == normalize_name(Recs[i].legal_name)
        v == normalize_name(VerifiedName)
    IN  /\ Recs[i].legal_name # <<>>
        /\ (IsSubstring(v, c) \/ IsSubstring(c, v))

ErrorTemplate == "Error during LEI lookup: {}"

C1_Safe ==
    /\ ~find_lei_raised
    /\ ~Done => outcome = None
    /\ Done =>
        /\ Len(outcome) = 1
        /\ Ret.success \in BOOLEAN
        /\ (~Ret.success => "message" \in DOMAIN Ret)
        /\ (adapter_raised => ~Ret.success /\ Ret.message.fmt = ErrorTemplate)

\* C1: whatever the two adapters do, find_lei ends, returns exactly one tagged
\* outcome and lets no exception out; when an adapter raised, the outcome is
\* the Failure whose message starts with "Error during LEI lookup: ".
C1_TaggedOutcome == [](C1_Safe) /\ <>Done

\* The verifier raised its terminal failure and find_lei returned a Failure.
C1_Witness ==
    /\ Done /\ adapter_raised /\ failed_attempts = 4
    /\ Len(outcome) = 1 /\ ~Ret.success

\* C2: the verifier is invoked only after the registry returned at least one
\* record; with zero records or a registry error find_lei returns a Failure
\* and the verifier is never invoked.
C2_VerifierAfterRecords ==
    /\ (verifier_calls > 0 \/ gemini_requests > 0) =>
           lei_records # None /\ Recs # <<>>
    /\ (Done /\ (lei_records = None \/ Recs = <<>>)) =>
           /\ ~Ret.success
           /\ verifier_calls = 0
           /\ gemini_requests = 0
           /\ gemini_result = None

\* The registry returned zero records and find_lei is over.
C2_Witness == Done /\ lei_records # None /\ Recs = <<>> /\ ~Ret.success

\* C3: the record selected is the lowest-index candidate with a non-empty
\* legal name that passes the containment test, none is selected only when no
\* candidate passes, and the candidates keep the registry's order.
C3_FirstMatchWins ==
    (Done /\ match_calls = 1) =>
        /\ \A i \in 1..Len(Recs) : Recs[i].lei = <<"LEI", i>>
        /\ Ret.success =>
               \E i \in 1..Len(Recs) :
                   /\ Matches(i)
                   /\ \A j \in 1..(i - 1) : ~Matches(j)
                   /\ Ret.lei = Recs[i].lei
                   /\ Ret.legal_name = Recs[i].legal_name
        /\ ~Ret.success => \A i \in 1..Len(Recs) : ~Matches(i)

\* Two candidates with different names both pass and the earlier was selected.
C3_Witness ==
    /\ Done /\ match_calls = 1 /\ Ret.success
    /\ \E i, j \in 1..Len(Recs) :
           /\ i < j /\ Matches(i) /\ Matches(j)
           /\ Recs[i].legal_name # Recs[j].legal_name
           /\ Ret.lei = Recs[i].lei

\* C4: an empty normalized name never matches a non-empty one, whichever of
\* the verified name and the selected candidate's name is the empty one.
C4_EmptyNeverMatches ==
    (Done /\ match_calls = 1 /\ Ret.success) =>
        LET v == normalize_name(VerifiedName)
            c == normalize_name(Ret.legal_name)
        IN  (v = <<>>) <=> (c = <<>>)

\* C5: normalizing a normalized name changes nothing.
C5_Idempotent == norm_calls = 2 => norm_out[1] = norm_in

\* C6: with records and a verified name in hand, find_lei returns Success
\* exactly when some candidate passes the containment test, and otherwise
\* returns (not through the exception handler) the no-match Failure naming
\* company_name, which is not the zero-records message.
C6_SuccessIffMatch ==
    (Done /\ NameVerified) =>
        /\ Recs # <<>>
        /\ Ret.success <=> (\E i \in 1..Len(Recs) : Matches(i))
        /\ ~Ret.success =>
               /\ ~adapter_raised
               /\ Ret.message.fmt = "Found LEI records for '{}', but could not verify a match with the legal name from the website. Please ensure the website URL is accurate."
               /\ Ret.message.arg = company_name
               /\ Ret.message.fmt # "No LEI records found for '{}'. This company may not have a registered LEI."

\* Records and a verified name, and no candidate passed.
C6_Witness ==
    /\ Done /\ NameVerified /\ ~Ret.success
    /\ Len(Recs) = 2 /\ Recs[1].legal_name # <<>>

\* The response carries no text, or only whitespace.
TextBlank(text) == text = None \/ \A i \in 1..Len(text[1]) : text[1][i] \in SpaceChars

\* C7: when the verifier got a response without text, or with empty or
\* whitespace-only text, find_lei returns the "Could not verify" Failure, not
\* the error Failure, and never calls _find_matching_record.
C7_NoNameIsNotAnError ==
    (Done /\ gemini_response # None /\ TextBlank(gemini_response[1].text)) =>
        /\ Recs # <<>>
        /\ ~Ret.success
        /\ Ret.message.fmt = "Could not verify company name from the provided website."
        /\ Ret.message.fmt # ErrorTemplate
        /\ ~adapter_raised
        /\ match_calls = 0

\* A whitespace-only response text, with candidates at hand.
C7_Witness ==
    /\ Done /\ gemini_response # None
    /\ gemini_response[1].text = Some(<<" ">>)
    /\ Recs # <<>> /\ ~Ret.success

\* C8: one verifier call makes at most 4 requests, a further one only after a
\* failed one and none after a successful one; it raises its terminal failure
\* exactly when all 4 failed, having slept 3 times, and otherwise returns.
C8_BoundedRetry ==
    /\ gemini_requests <= 4
    /\ failed_attempts <= gemini_requests
    /\ gemini_requests <= failed_attempts + 1
    /\ pc = "gemini" =>
        /\ gemini_requests = failed_attempts
        /\ failed_attempts < 4
        /\ sleep_count = failed_attempts
        /\ gemini_response = None
    /\ (Done /\ verifier_calls = 1) =>
        /\ adapter_raised <=> failed_attempts = 4
        /\ adapter_raised <=> gemini_result = None
        /\ adapter_raised =>
               /\ sleep_count = 3
               /\ Ret.message.arg.fmt = "Error calling Gemini API after 4 attempts: {}"
        /\ ~adapter_raised =>
               /\ gemini_requests = failed_attempts + 1
               /\ sleep_count = failed_attempts

\* All four requests failed.
C8_Witness == Done /\ verifier_calls = 1 /\ failed_attempts = 4 /\ adapter_raised

\* C9: after a failed attempt that is not the last, the wait is the server's
\* retry delay when the error carries one, and 60 seconds only otherwise.
C9_HonoursServerDelay ==
    (pc = "gemini" /\ failed_attempts > 0) =>
        last_sleep = Some(IF server_delay = None THEN 60 ELSE server_delay[1])

\* C10: a Success takes lei, legal_name and address from one and the same
\* registry record, and sources (in order) and estimated_cost from the
\* verifier's result, the cost being 0 when the response reported no usage.
C10_SuccessFields ==
    (Done /\ Len(outcome) = 1 /\ Ret.success) =>
        /\ \E i \in 1..Len(Recs) :
               /\ Ret.lei = Recs[i].lei
               /\ Ret.legal_name = Recs[i].legal_name
               /\ Ret.address = Recs[i].address
        /\ DOMAIN Ret = {"success", "lei", "legal_name", "address", "sources", "estimated_cost"}
        /\ Ret.sources = gemini_result[1].sources
        /\ Ret.estimated_cost = gemini_result[1].estimated_cost
        /\ gemini_response[1].usage_metadata = None => Ret.estimated_cost = 0

\* A Success whose registry name differs from the verified name, with two
\* sources and a reported cost.
C10_Witness ==
    /\ Done /\ Len(outcome) = 1 /\ Ret.success
    /\ Ret.legal_name # VerifiedName
    /\ Len(Ret.sources) = 2
    /\ Ret.sources[1].url # Ret.sources[2].url
    /\ Ret.estimated_cost > 0

\* The name is empty or made of whitespace only.
BlankName(name) == \A i \in 1..Len(name) : name[i] \in SpaceChars

\* C11: for an empty or whitespace-only company name the registry client
\* raises its input error with no HTTP request sent, and find_lei returns a
\* Failure having sent no registry request and made no verifier call.
C11_BlankNameSendsNothing ==
    /\ (pc # "idle" /\ BlankName(company_name)) =>
        /\ Done
        /\ http_requests = 0
        /\ verifier_calls = 0
        /\ gemini_requests = 0
        /\ adapter_raised
        /\ Len(outcome) = 1
        /\ ~Ret.success
        /\ Ret.message.fmt = ErrorTemplate
        /\ Ret.message.arg.fmt = "Company name cannot be empty"
    /\ http_requests > 0 => ~BlankName(company_name)

\* find_lei was called with a whitespace-only name and is over.
C11_Witness ==
    /\ Done /\ company_name # <<>> /\ BlankName(company_name)
    /\ Len(outcome) = 1 /\ ~Ret.success

\* C12: get_lei_record with a code whose length is not 20 (the empty code
\* included) raises its input error with no HTTP request sent; with a code of
\* length 20 it sends one request, returns None on a 404 answer, and whenever
\* it returns, returns None or the one first record of the answer.
C12_RecordLookup ==
    /\ (rec_pc # "idle" /\ Len(lei_code) # 20) =>
        /\ rec_pc = "done"
        /\ rec_status = "raised"
        /\ rec_error # None
        /\ rec_error[1].type = "ValueError"
        /\ rec_requests = 0
        /\ rec_path = None
    /\ (rec_pc # "idle" /\ Len(lei_code) = 20) => rec_requests = 1
    /\ (rec_pc = "done" /\ Len(lei_code) = 20 /\ rec_response # None) =>
        /\ rec_response[1].status = 404 => (rec_status = "returned" /\ rec_result = None)
        /\ rec_status = "returned" =>
               /\ Len(rec_result) <= 1
               /\ rec_result # None =>
                      /\ rec_response[1].data # <<>>
                      /\ rec_result[1] = rec_response[1].data[1]

\* A code of length 20 was looked up and the registry answered 404.
C12_Witness ==
    /\ rec_pc = "done" /\ Len(lei_code) = 20
    /\ rec_response # None /\ rec_response[1].status = 404
    /\ rec_status = "returned"

\* Every letter in the other case.
SwapCase(s) ==
    [i \in 1..Len(s) |->
        IF s[i] \in DOMAIN LowerOf THEN LowerOf[s[i]] ELSE UpperChar(s[i])]

\* Spellings of a name that differ from it in letter case only.
CaseVariants(s) == {upper(s), SwapCase(s), Capitalized(s)}

GoogleInc == <<"G","o","o","g","l","e"," ","I","n","c",".">>

\* C13: normalization is case-insensitive.  A name and its spellings in
\* another letter case have the same normalized name, and a word followed by
\* a suffix token, with or without a period, normalizes to the word in
\* lower case.
C13_CaseInsensitive ==
    norm_calls = 1 =>
        /\ \A v \in CaseVariants(norm_in) : normalize_name(v) = norm_out[1]
        /\ norm_in \in SuffixedNames =>
            \E w \in Words :
                /\ Len(norm_in) > Len(w)
                /\ SubSeq(lower(norm_in), 1, Len(w) + 1) = w \o <<" ">>
                /\ norm_out[1] = w

C13_Witness ==
    /\ norm_calls = 1
    /\ norm_in = GoogleInc
    /\ upper(norm_in) # norm_in
    /\ norm_out = Some(<<"g","o","o","g","l","e">>)

\* C14: the normalized name holds letters, digits and single blanks only:
\* no punctuation, the underscore included, no two blanks in a row and no
\* blank at either end.
C14_OnlyAlphanumericsAndSingleSpaces ==
    norm_calls >= 1 =>
        LET out == norm_out[1] IN
        /\ \A i \in 1..Len(out) : out[i] \in (WordChars \ {"_"}) \cup {" "}
        /\ \A i \in 1..(Len(out) - 1) : ~(out[i] = " " /\ out[i + 1] = " ")
        /\ out # <<>> => (out[1] # " " /\ out[Len(out)] # " ")

\* C15: every request get_lei_record sends carries a code of exactly 20
\* characters in its path.
C15_PathCodeHasTwentyChars == rec_path # None => Len(rec_path[1]) = 20

====
